---- MODULE Spec2Model ----
(***************************************************************************)
(* Model of the combined IMU + magnetometer firmware                       *)
(* (src/Gyrometer/src/main.cpp): setup(), setupWiFi(), loop(), sendLine()  *)
(* and emaAngle(), together with the collaborators the firmware polls      *)
(* (the WiFi station, the two I2C devices, the Madgwick filter).           *)
(*                                                                         *)
(* Angles are fixed-point numbers in units of 1/1000 degree.  The          *)
(* calibrated magnetometer vector is kept in units of 1/1090 microtesla,   *)
(* so MAG_UT_PER_LSB = 100/1090 becomes a multiplication by 100.           *)
(***************************************************************************)
EXTENDS Integers, Sequences, FiniteSets, TLC

\* ------------------------------------------------------------------------
\* Bounds of the model
\* ------------------------------------------------------------------------
MaxTicks == 1

\* updates fed to the smoother when it is run on its own
MaxEmaSteps == 3

\* readings put through the calibration when it is run on its own
MaxCalReads == 2

\* ------------------------------------------------------------------------
\* Program constants
\* ------------------------------------------------------------------------
WORD == 65536
WIFI_TIMEOUT == 5000
WIFI_POLL_DELAY == 100
SETUP_DELAY == 500
WIFI_CHECK_INTERVAL == 2000
STATUS_INTERVAL == 500
UPDATE_INTERVAL == 10
DIAG_INTERVAL == 3000
MAG_OFFSET_X == 0
MAG_OFFSET_Y == 0
MAG_OFFSET_Z == 0
MAG_SCALE_X == 1
MAG_SCALE_Y == 1
MAG_SCALE_Z == 1
MAG_UT_NUM == 100
EMA_ALPHA_NUM == 15
EMA_ALPHA_DEN == 100
HALF_TURN == 180000
FULL_TURN == 360000

\* ------------------------------------------------------------------------
\* Inputs
\* ------------------------------------------------------------------------
\* a float handed back by the filter: a number (1/1000 degree) or nan
Num(v) == [nan |-> FALSE, val |-> v]
NaN == [nan |-> TRUE, val |-> 0]
isnan(x) == x.nan

Zero3 == <<0, 0, 0>>

\* times after WiFi.begin (ms) at which the station may come up during setup
ConnectLatencies == {0, 5000}

\* time the scheduler lets pass between two polls of the clock
TickSteps == {10, 500, 2000}

\* how long before the clock wraps round 2^32 a long run is picked up (ms)
BeforeWrap == {5, 1000}

\* raw angles fed to one axis of the smoother (1/1000 degree)
EmaRaws == {1000, 100000, 181000, 359000}

\* smoothing factors alpha = num/den with 0 < alpha <= 1; 15/100 is EMA_ALPHA
EmaAlphas == {<<15, 100>>, <<1, 2>>, <<1, 1>>}

\* hard-iron offsets and soft-iron scales the calibration can be built with
\* (MAG_OFFSET_*, MAG_SCALE_*; the scales are not zero)
CalOffsets == {Zero3, <<12, -3, 40>>, <<5, 0, 0>>, <<-150, 80, 0>>}
CalScales == {<<1, 1, 1>>, <<2, 1, 3>>}

\* raw int16 triples put through the calibration
CalRaws ==
  {Zero3, <<12, -3, 40>>, <<5, 0, 0>>, <<-150, 80, 0>>, <<100, 100, 100>>,
   <<0, 0, -7>>, <<-32768, 32767, 1>>}

\* raw magnetometer triples returned by mag.getHeading
MagRaws == {Zero3, <<100, 100, 100>>, <<0, 0, -7>>}

\* roll, pitch, yaw handed back by the filter
FilterOutputs ==
  { <<Num(10000), Num(-5000), Num(359000)>>,
    <<Num(12000), Num(-5000), Num(1000)>>,
    <<NaN, Num(-5000), Num(1000)>>,
    <<Num(12000), NaN, Num(1000)>>,
    <<Num(12000), Num(-5000), NaN>>,
    <<NaN, NaN, NaN>> }

VARIABLES
  pc,                \* position of the control thread
  millis,            \* the millisecond clock (unsigned 32 bit)
  ticks,             \* number of clock advances in the main loop so far
  start,             \* setupWiFi's local start time
  wifiRet,           \* return value of setupWiFi
  lastUpdate, lastStatusCheck, lastWiFiCheck, lastDiag,
  imuConnected, magConnected, useWiFi, wifiEverConnected,
  smoothRoll, smoothPitch, smoothYaw, emaInitialized,
  wlConnected,       \* WiFi.status() == WL_CONNECTED
  wifiStarted,       \* the station is trying to associate (after WiFi.begin)
  wifiBeginCalls,    \* number of WiFi.begin calls issued so far
  imuAck, magAck,    \* the device acknowledges its I2C address
  imuInitOk,         \* imu.init() succeeded at startup
  magInitialized,    \* mag.initialize() ran at startup
  udpOut, serialOut, \* the lines written to each channel, by header
  lineCount,         \* number of lines handed to sendLine so far
  lastSent,          \* the most recent line handed to sendLine, in full
  lastTick,          \* what the most recent sampling step did
  since,             \* true time (ms) since each section of loop() last ran
  emaRun,            \* one axis of the smoother, run on its own
  calRun             \* the magnetometer calibration, run on its own

vars == <<pc, millis, ticks, start, wifiRet,
          lastUpdate, lastStatusCheck, lastWiFiCheck, lastDiag,
          imuConnected, magConnected, useWiFi, wifiEverConnected,
          smoothRoll, smoothPitch, smoothYaw, emaInitialized,
          wlConnected, wifiStarted, wifiBeginCalls, imuAck, magAck,
          imuInitOk, magInitialized, udpOut, serialOut, lineCount, lastSent,
          lastTick, since, emaRun, calRun>>

timerVars == <<lastUpdate, lastStatusCheck, lastWiFiCheck, lastDiag>>
smoothVars == <<smoothRoll, smoothPitch, smoothYaw, emaInitialized>>
sensorEnvVars == <<imuAck, magAck>>
wifiEnvVars == <<wlConnected, wifiStarted, wifiBeginCalls>>
outVars == <<udpOut, serialOut, lineCount, lastSent>>
initVars == <<imuInitOk, magInitialized>>
benchVars == <<emaRun, calRun>>
firmwareVars == <<pc, millis, ticks, start, wifiRet, timerVars, imuConnected,
                  magConnected, useWiFi, wifiEverConnected, smoothVars,
                  wifiEnvVars, sensorEnvVars, initVars, outVars, lastTick,
                  since>>

\* ------------------------------------------------------------------------
\* Helpers
\* ------------------------------------------------------------------------

\* An unsigned long is a pair <<high word, low word>> of 16-bit words, so
\* that the 32-bit clock keeps its width.

\* the unsigned long of a number below 2^31
U32(n) == <<n \div WORD, n % WORD>>

\* a + d in unsigned 32-bit arithmetic, for 0 <= d < 2^16
Add32(a, d) ==
  LET lo == a[2] + d
  IN <<(a[1] + (lo \div WORD)) % WORD, lo % WORD>>

\* a - b without the wraparound: 0 where a is below b
Sub32_clamped(a, b) ==
  IF a[1] < b[1] \/ (a[1] = b[1] /\ a[2] < b[2])
  THEN <<0, 0>>
  ELSE LET lo == a[2] - b[2]
           borrow == IF lo < 0 THEN 1 ELSE 0
       IN <<a[1] - b[1] - borrow, (lo + WORD) % WORD>>

\* a - b in unsigned 32-bit arithmetic
Sub32(a, b) ==
  LET lo == a[2] - b[2]
      borrow == IF lo < 0 THEN 1 ELSE 0
  IN <<(a[1] - b[1] - borrow + 2 * WORD) % WORD, (lo + WORD) % WORD>>

\* a >= n for an unsigned long a and a number n below 2^31
AtLeast(a, n) ==
  \/ a[1] > n \div WORD
  \/ a[1] = n \div WORD /\ a[2] >= n % WORD

\* millis() - last.  A section of loop() that reads millis() in its test and
\* again in the assignment that follows reads the same value both times.
Elapsed(last) == Sub32(millis, last)

\* x / d rounded to the nearest integer, halves away from zero
RoundDiv(x, d) ==
  IF x >= 0 THEN (2 * x + d) \div (2 * d) ELSE -((2 * (-x) + d) \div (2 * d))

\* String(value, 2): the value printed with two decimals (1/100 degree)
String2(x) == RoundDiv(x, 10)

\* bool checkI2CDevice(uint8_t addr)
checkI2CDevice(ack) == ack

\* what a channel trace keeps of a line: a TRANSPORT line in full, the
\* first field of any other line
Header(line) == IF line[1] = "TRANSPORT" THEN line ELSE <<line[1]>>

\* the state of the two channels and of the lines sent
Out == [udp |-> udpOut, serial |-> serialOut, n |-> lineCount, last |-> lastSent]

\* a line written to Serial directly, not through sendLine
SerialPrint(o, line) ==
  [o EXCEPT !.serial = Append(@, [seq |-> 0, via |-> "direct", head |-> Header(line)])]

\* a send that writes to Serial as well when the link state is Primary
sendLine_both(o, uw, line) ==
  LET via == IF uw THEN "wifi" ELSE "serial"
      e == [seq |-> o.n + 1, via |-> via, head |-> Header(line)]
      l == [seq |-> o.n + 1, via |-> via, line |-> line]
  IN IF uw
     THEN [o EXCEPT !.udp = Append(@, e), !.serial = Append(@, e),
                    !.n = @ + 1, !.last = l]
     ELSE [o EXCEPT !.serial = Append(@, e), !.n = @ + 1, !.last = l]

\* void sendLine(const String &line), called while the link state is uw
sendLine(o, uw, line) ==
  LET via == IF uw THEN "wifi" ELSE "serial"
      e == [seq |-> o.n + 1, via |-> via, head |-> Header(line)]
      l == [seq |-> o.n + 1, via |-> via, line |-> line]
  IN IF uw
     THEN [o EXCEPT !.udp = Append(@, e), !.n = @ + 1, !.last = l]
     ELSE [o EXCEPT !.serial = Append(@, e), !.n = @ + 1, !.last = l]

SetOut(o) ==
  /\ udpOut' = o.udp
  /\ serialOut' = o.serial
  /\ lineCount' = o.n
  /\ lastSent' = o.last

\* while (diff > 180.0f) diff -= 360.0f;
RECURSIVE WrapDown(_)
WrapDown(diff) == IF diff > HALF_TURN THEN WrapDown(diff - FULL_TURN) ELSE diff

\* while (diff < -180.0f) diff += 360.0f;
RECURSIVE WrapUp(_)
WrapUp(diff) == IF diff < -HALF_TURN THEN WrapUp(diff + FULL_TURN) ELSE diff

\* the wrapped difference added in full: alpha is not applied
emaAngle_full(smoothed, raw, alphaNum, alphaDen) ==
  smoothed + WrapUp(WrapDown(raw - smoothed))

\* float emaAngle(float smoothed, float raw, float alpha)
emaAngle(smoothed, raw, alphaNum, alphaDen) ==
  smoothed + RoundDiv(alphaNum * WrapUp(WrapDown(raw - smoothed)), alphaDen)

\* (raw - OFFSET) * SCALE * MAG_UT_PER_LSB on each axis (lines 231-233)
CalibrateWith(raw, offset, scale) ==
  << (raw[1] - offset[1]) * scale[1] * MAG_UT_NUM,
     (raw[2] - offset[2]) * scale[2] * MAG_UT_NUM,
     (raw[3] - offset[3]) * scale[3] * MAG_UT_NUM >>

\* calibrated magnetometer vector of a raw triple (lines 231-233), with the
\* offsets and scales of this build
Calibrate(raw) ==
  CalibrateWith(raw, <<MAG_OFFSET_X, MAG_OFFSET_Y, MAG_OFFSET_Z>>,
                <<MAG_SCALE_X, MAG_SCALE_Y, MAG_SCALE_Z>>)

\* magValid = (mx_raw != 0 || my_raw != 0 || mz_raw != 0)
MagValid(raw) == raw[1] # 0 \/ raw[2] # 0 \/ raw[3] # 0

\* !isnan(roll) && !isnan(pitch) && !isnan(yaw)
IsNumeric(est) == ~isnan(est[1]) /\ ~isnan(est[2]) /\ ~isnan(est[3])

\* the record of a sampling step that did nothing (kind "none": no sampling
\* step has run yet, kind "skipped": the step ran with imuConnected false)
IdleTick(kind) ==
  [kind |-> kind, imuRead |-> FALSE, magRead |-> FALSE, magZero |-> FALSE,
   mode |-> "none", magArgZero |-> FALSE, estNaN |-> FALSE, est |-> Zero3,
   ema |-> "none", sent |-> FALSE, diag |-> FALSE]

NoTick == IdleTick("none")

\* the true time since each section of loop() last ran, or since the boot
\* for a section that has not run yet (its last* is still 0); d ms later
SinceBoot == [update |-> 0, status |-> 0, wifi |-> 0]

Later(s, d) ==
  [update |-> s.update + d, status |-> s.status + d, wifi |-> s.wifi + d]

\* the smoother and the calibration standing idle
NoEmaRun ==
  [alpha |-> <<EMA_ALPHA_NUM, EMA_ALPHA_DEN>>, seeded |-> FALSE, steps |-> 0,
   fed |-> 0, before |-> 0, raw |-> 0, smoothed |-> 0]

NoCalRun ==
  [offset |-> Zero3, scale |-> <<1, 1, 1>>, reads |-> 0, raw |-> Zero3,
   m_ut |-> Zero3, mode |-> "none"]

\* ------------------------------------------------------------------------
\* Initial state: the globals as declared (lines 49-63), before setup()
\* ------------------------------------------------------------------------
Boot ==
  /\ pc = "setup"
  /\ millis = U32(0)
  /\ ticks = 0
  /\ start = U32(0)
  /\ wifiRet = FALSE
  /\ lastUpdate = U32(0)
  /\ lastStatusCheck = U32(0)
  /\ lastWiFiCheck = U32(0)
  /\ lastDiag = U32(0)
  /\ imuConnected = TRUE
  /\ magConnected = TRUE
  /\ useWiFi = FALSE
  /\ wifiEverConnected = FALSE
  /\ smoothRoll = 0
  /\ smoothPitch = 0
  /\ smoothYaw = 0
  /\ emaInitialized = FALSE
  /\ wlConnected = FALSE
  /\ wifiStarted = FALSE
  /\ wifiBeginCalls = 0
  /\ imuAck \in BOOLEAN
  /\ magAck \in BOOLEAN
  /\ imuInitOk = FALSE
  /\ magInitialized = FALSE
  /\ udpOut = <<>>
  /\ serialOut = <<>>
  /\ lineCount = 0
  /\ lastSent = [seq |-> 0, via |-> "none", line |-> <<"none">>]
  /\ lastTick = NoTick
  /\ since = SinceBoot

Init ==
  /\ Boot
  /\ emaRun = NoEmaRun
  /\ calRun = NoCalRun

\* ------------------------------------------------------------------------
\* The collaborators the firmware polls
\* ------------------------------------------------------------------------

LoopPcs == {"watchdog", "health", "sensor"}

\* WiFi.status() is read by the wait loop of setupWiFi, by the outcome of
\* setupWiFi and by a WiFi watchdog that is due; the I2C acknowledgements
\* are read by setup() and by an I2C health check that is due.  A
\* collaborator changes right before a step that reads it: a change at any
\* other moment is seen by the same next reader.
LinkIsRead ==
  \/ pc \in {"wifi_wait", "wifi_result"}
  \/ pc = "watchdog" /\ AtLeast(Elapsed(lastWiFiCheck), WIFI_CHECK_INTERVAL)

AckIsRead ==
  \/ pc = "setup"
  \/ pc = "health" /\ AtLeast(Elapsed(lastStatusCheck), STATUS_INTERVAL)

\* the station associates: WiFi.status() becomes WL_CONNECTED
LinkUp ==
  /\ LinkIsRead
  /\ wifiStarted
  /\ ~wlConnected
  /\ pc = "wifi_wait" => Elapsed(start) \in {U32(t) : t \in ConnectLatencies}
  /\ wlConnected' = TRUE
  /\ UNCHANGED <<pc, millis, ticks, start, wifiRet, timerVars, imuConnected,
                 magConnected, useWiFi, wifiEverConnected, smoothVars, since,
                 benchVars,
                 wifiStarted, wifiBeginCalls, sensorEnvVars, initVars,
                 outVars, lastTick>>

\* the station loses the access point
LinkDown ==
  /\ LinkIsRead
  /\ wlConnected
  /\ wlConnected' = FALSE
  /\ UNCHANGED <<pc, millis, ticks, start, wifiRet, timerVars, imuConnected,
                 magConnected, useWiFi, wifiEverConnected, smoothVars, since,
                 benchVars,
                 wifiStarted, wifiBeginCalls, sensorEnvVars, initVars,
                 outVars, lastTick>>

\* the IMU starts or stops acknowledging its address
ImuAckChange ==
  /\ AckIsRead
  /\ imuAck' = ~imuAck
  /\ UNCHANGED <<pc, millis, ticks, start, wifiRet, timerVars, imuConnected,
                 magConnected, useWiFi, wifiEverConnected, smoothVars, since,
                 benchVars,
                 wifiEnvVars, magAck, initVars, outVars, lastTick>>

\* the magnetometer starts or stops acknowledging its address
MagAckChange ==
  /\ AckIsRead
  /\ magAck' = ~magAck
  /\ UNCHANGED <<pc, millis, ticks, start, wifiRet, timerVars, imuConnected,
                 magConnected, useWiFi, wifiEverConnected, smoothVars, since,
                 benchVars,
                 wifiEnvVars, imuAck, initVars, outVars, lastTick>>

\* time passes between two polls of millis() in the main loop
Tick ==
  /\ pc \in LoopPcs
  /\ ticks < MaxTicks
  /\ \E d \in TickSteps : /\ millis' = Add32(millis, d)
                         /\ since' = Later(since, d)
  /\ ticks' = ticks + 1
  /\ UNCHANGED <<benchVars, pc, start, wifiRet, timerVars, imuConnected, magConnected,
                 useWiFi, wifiEverConnected, smoothVars, wifiEnvVars,
                 sensorEnvVars, initVars, outVars, lastTick>>

\* ------------------------------------------------------------------------
\* setup()
\* ------------------------------------------------------------------------

\* an init failure that leaves imuConnected as probed
ImuAfterSetup_keepsProbe(ic, initOk) == ic

\* imuConnected after the probe and imu.init() (lines 149, 160-164)
ImuAfterSetup(ic, initOk) == ic /\ initOk

\* setup(), up to filter.begin (lines 139-181)
setup_sensors ==
  /\ pc = "setup"
  /\ \E initOk \in BOOLEAN :
       LET ic == checkI2CDevice(imuAck)
           mc == checkI2CDevice(magAck)
           o0 == SerialPrint(SerialPrint(SerialPrint(Out,
                   <<"DEBUG", "=== ESP32 Hardware Check ===">>),
                   <<"DEBUG", "Flash size">>),
                   <<"DEBUG", "============================">>)
           o1 == IF ~ic THEN SerialPrint(o0, <<"DEBUG", "ERROR: MPU6500 not found!">>)
                 ELSE o0
           o2 == IF ~mc THEN SerialPrint(o1, <<"DEBUG", "ERROR: HMC5883L not found!">>)
                 ELSE o1
           o3 == IF ic
                 THEN IF ~initOk
                      THEN SerialPrint(o2, <<"DEBUG", "ERROR: MPU6500 init failed!">>)
                      ELSE SerialPrint(SerialPrint(o2,
                             <<"DEBUG", "MPU6500: Calibrating...">>),
                             <<"DEBUG", "MPU6500: Done.">>)
                 ELSE o2
           o5 == IF mc THEN SerialPrint(o3, <<"DEBUG", "HMC5883L: Initialized.">>)
                 ELSE o3
       IN /\ imuConnected' = ImuAfterSetup(ic, initOk)
          /\ imuInitOk' = (ic /\ initOk)
          /\ magConnected' = mc
          /\ magInitialized' = mc
          /\ SetOut(o5)
  /\ millis' = Add32(millis, SETUP_DELAY)
  /\ since' = Later(since, SETUP_DELAY)
  /\ pc' = "wifi_begin"
  /\ UNCHANGED <<benchVars, ticks, start, wifiRet, timerVars, useWiFi, wifiEverConnected,
                 smoothVars, wifiEnvVars, sensorEnvVars, lastTick>>

\* setupWiFi(): WiFi.begin and the start of the wait (lines 103-111)
setupWiFi_begin ==
  /\ pc = "wifi_begin"
  /\ SetOut(SerialPrint(Out, <<"DEBUG", "WiFi: Connecting to">>))
  /\ wifiStarted' = TRUE
  /\ wifiBeginCalls' = wifiBeginCalls + 1
  /\ start' = millis
  /\ pc' = "wifi_wait"
  /\ UNCHANGED <<benchVars, since, millis, ticks, wifiRet, timerVars, imuConnected, magConnected,
                 useWiFi, wifiEverConnected, smoothVars, wlConnected,
                 sensorEnvVars, initVars, lastTick>>

\* setupWiFi(): one evaluation of the wait loop's condition (lines 112-115)
setupWiFi_wait ==
  /\ pc = "wifi_wait"
  /\ IF ~wlConnected /\ ~AtLeast(Elapsed(start), WIFI_TIMEOUT)
     THEN /\ millis' = Add32(millis, WIFI_POLL_DELAY)
          /\ since' = Later(since, WIFI_POLL_DELAY)
          /\ pc' = pc
     ELSE /\ millis' = millis
          /\ since' = since
          /\ pc' = "wifi_result"
  /\ UNCHANGED <<benchVars, ticks, start, wifiRet, timerVars, imuConnected, magConnected,
                 useWiFi, wifiEverConnected, smoothVars, wifiEnvVars,
                 sensorEnvVars, initVars, outVars, lastTick>>

\* setupWiFi(): the outcome (lines 116-136)
setupWiFi_result ==
  /\ pc = "wifi_result"
  /\ IF wlConnected
     THEN /\ SetOut(SerialPrint(SerialPrint(SerialPrint(SerialPrint(Out,
                       <<"DEBUG", "....">>),
                       <<"DEBUG", "WiFi: Connected! IP = ">>),
                       <<"DEBUG", "WiFi: Gateway: ">>),
                       <<"DEBUG", "WiFi: Sending UDP to ">>))
          /\ wifiEverConnected' = TRUE
          /\ wifiRet' = TRUE
          /\ UNCHANGED <<wlConnected, wifiStarted>>
     ELSE /\ SetOut(SerialPrint(SerialPrint(SerialPrint(Out,
                       <<"DEBUG", "....">>),
                       <<"DEBUG", "WiFi: FAILED - falling back to Serial">>),
                       <<"DEBUG", "WIFI_FAIL">>))
          /\ wlConnected' = FALSE
          /\ wifiStarted' = FALSE
          /\ wifiRet' = FALSE
          /\ UNCHANGED wifiEverConnected
  /\ pc' = "setup_end"
  /\ UNCHANGED <<benchVars, since, millis, ticks, start, timerVars, imuConnected, magConnected,
                 useWiFi, smoothVars, wifiBeginCalls, sensorEnvVars, initVars,
                 lastTick>>

\* the two names the wrong way round
TransportLine_swapped(uw) == <<"TRANSPORT", IF uw THEN "serial" ELSE "wifi">>

\* String("TRANSPORT,") + (useWiFi ? "wifi" : "serial")
TransportLine(uw) == <<"TRANSPORT", IF uw THEN "wifi" ELSE "serial">>

\* setup(): useWiFi = setupWiFi(); sendLine("TRANSPORT,...") (lines 184-187)
setup_end ==
  /\ pc = "setup_end"
  /\ useWiFi' = wifiRet
  /\ SetOut(sendLine(Out, wifiRet, TransportLine(wifiRet)))
  /\ pc' = "watchdog"
  /\ UNCHANGED <<benchVars, since, millis, ticks, start, wifiRet, timerVars, imuConnected,
                 magConnected, wifiEverConnected, smoothVars, wifiEnvVars,
                 sensorEnvVars, initVars, lastTick>>

\* ------------------------------------------------------------------------
\* loop()
\* ------------------------------------------------------------------------

\* the watchdog without its first branch: a lost link is never noticed
WatchdogBranch_noFailover(uw, ever, connected) ==
  IF ~uw /\ ever
  THEN IF connected THEN "failback" ELSE "reconnect"
  ELSE "none"

\* the second branch without its !useWiFi test
WatchdogBranch_repeatFailback(uw, ever, connected) ==
  IF uw /\ ~connected THEN "failover"
  ELSE IF ever
       THEN IF connected THEN "failback" ELSE "reconnect"
       ELSE "none"

\* the second branch without its wifiEverConnected test
WatchdogBranch_noEverGate(uw, ever, connected) ==
  IF uw /\ ~connected THEN "failover"
  ELSE IF ~uw
       THEN IF connected THEN "failback" ELSE "reconnect"
       ELSE "none"

\* the second branch without its WiFi.begin
WatchdogBranch_noReconnect(uw, ever, connected) ==
  IF uw /\ ~connected THEN "failover"
  ELSE IF ~uw /\ ever /\ connected THEN "failback"
       ELSE "none"

\* WiFi.begin issued in Fallback whether or not the primary ever connected
WatchdogBranch_retryAlways(uw, ever, connected) ==
  IF uw /\ ~connected THEN "failover"
  ELSE IF ~uw /\ ever /\ connected THEN "failback"
       ELSE IF ~uw /\ ~connected THEN "reconnect"
            ELSE "none"

\* the branch the WiFi watchdog takes (lines 195-205)
WatchdogBranch(uw, ever, connected) ==
  IF uw /\ ~connected THEN "failover"
  ELSE IF ~uw /\ ever
       THEN IF connected THEN "failback" ELSE "reconnect"
       ELSE "none"

WiFiCheckDue == AtLeast(Elapsed(lastWiFiCheck), WIFI_CHECK_INTERVAL)

\* loop(): the WiFi watchdog (lines 191-206)
WiFiWatchdog ==
  /\ pc = "watchdog"
  /\ IF WiFiCheckDue
     THEN /\ lastWiFiCheck' = millis
          /\ since' = [since EXCEPT !.wifi = 0]
          /\ LET branch == WatchdogBranch(useWiFi, wifiEverConnected, wlConnected)
             IN CASE branch = "failover" ->
                       /\ useWiFi' = FALSE
                       /\ SetOut(sendLine(Out, FALSE, <<"TRANSPORT", "serial">>))
                       /\ UNCHANGED <<wifiStarted, wifiBeginCalls>>
                  [] branch = "failback" ->
                       /\ useWiFi' = TRUE
                       /\ SetOut(sendLine(Out, TRUE, <<"TRANSPORT", "wifi">>))
                       /\ UNCHANGED <<wifiStarted, wifiBeginCalls>>
                  [] branch = "reconnect" ->
                       /\ wifiStarted' = TRUE
                       /\ wifiBeginCalls' = wifiBeginCalls + 1
                       /\ UNCHANGED <<useWiFi, outVars>>
                  [] OTHER ->
                       UNCHANGED <<useWiFi, outVars, wifiStarted, wifiBeginCalls>>
     ELSE UNCHANGED <<lastWiFiCheck, since, useWiFi, outVars, wifiStarted,
                      wifiBeginCalls>>
  /\ pc' = "health"
  /\ UNCHANGED <<benchVars, millis, ticks, start, wifiRet, lastUpdate, lastStatusCheck,
                 lastDiag, imuConnected, magConnected, wifiEverConnected,
                 smoothVars, wlConnected, sensorEnvVars, initVars, lastTick>>

StatusCheckDue == AtLeast(Elapsed(lastStatusCheck), STATUS_INTERVAL)

\* the two fields the wrong way round
StatusLine_swapped(imuOk, magOk) ==
  <<"STATUS", IF magOk THEN 1 ELSE 0, IF imuOk THEN 1 ELSE 0>>

\* "STATUS," + String(imuConnected ? 1 : 0) + "," + String(magConnected ? 1 : 0)
StatusLine(imuOk, magOk) ==
  <<"STATUS", IF imuOk THEN 1 ELSE 0, IF magOk THEN 1 ELSE 0>>

\* a health check that takes its own send for a failed one and drops the
\* link state to Fallback
I2CHealth_dropsLink ==
  /\ pc = "health"
  /\ IF StatusCheckDue
     THEN /\ lastStatusCheck' = millis
          /\ since' = [since EXCEPT !.status = 0]
          /\ imuConnected' = checkI2CDevice(imuAck)
          /\ magConnected' = checkI2CDevice(magAck)
          /\ SetOut(sendLine(Out, useWiFi,
                             StatusLine(checkI2CDevice(imuAck), checkI2CDevice(magAck))))
          /\ useWiFi' = FALSE
     ELSE UNCHANGED <<lastStatusCheck, since, imuConnected, magConnected, outVars,
                      useWiFi>>
  /\ pc' = "sensor"
  /\ UNCHANGED <<benchVars, millis, ticks, start, wifiRet, lastUpdate, lastWiFiCheck,
                 lastDiag, wifiEverConnected, smoothVars, wifiEnvVars,
                 sensorEnvVars, initVars, lastTick>>

\* loop(): the I2C health check (lines 208-216)
I2CHealth ==
  /\ pc = "health"
  /\ IF StatusCheckDue
     THEN /\ lastStatusCheck' = millis
          /\ since' = [since EXCEPT !.status = 0]
          /\ imuConnected' = checkI2CDevice(imuAck)
          /\ magConnected' = checkI2CDevice(magAck)
          /\ SetOut(sendLine(Out, useWiFi,
                             StatusLine(checkI2CDevice(imuAck), checkI2CDevice(magAck))))
     ELSE UNCHANGED <<lastStatusCheck, since, imuConnected, magConnected, outVars>>
  /\ pc' = "sensor"
  /\ UNCHANGED <<benchVars, millis, ticks, start, wifiRet, lastUpdate, lastWiFiCheck,
                 lastDiag, useWiFi, wifiEverConnected, smoothVars, wifiEnvVars,
                 sensorEnvVars, initVars, lastTick>>

UpdateDue == AtLeast(Elapsed(lastUpdate), UPDATE_INTERVAL)

DiagDue == AtLeast(Elapsed(lastDiag), DIAG_INTERVAL)

\* a sampling step that does not look at imuConnected
ImuGate_always(imuOk) == TRUE

\* whether the sampling step runs at all (line 222)
ImuGate(imuOk) == imuOk

\* the mode chosen from magConnected alone, without the all-zero test
FusionMode_noZeroTest(magOk, raw) ==
  IF magOk THEN "update" ELSE "updateIMU"

\* the filter call the sampling step makes (lines 226-243)
FusionMode(magOk, raw) ==
  IF magOk /\ MagValid(raw) THEN "update" ELSE "updateIMU"

\* the nan guard without its test of yaw
EstimateAccepted_noYaw(est) == ~isnan(est[1]) /\ ~isnan(est[2])

\* whether the estimate is smoothed and sent (line 250)
EstimateAccepted(est) == IsNumeric(est)

\* a smoother that is never seeded: the first estimate is smoothed against
\* the initial 0
SmoothStep_neverSeeds(seeded, smoothed, raw) ==
  emaAngle(smoothed, raw, EMA_ALPHA_NUM, EMA_ALPHA_DEN)

\* one smoothed angle after an accepted estimate (lines 252-261)
SmoothStep(seeded, smoothed, raw) ==
  IF ~seeded THEN raw ELSE emaAngle(smoothed, raw, EMA_ALPHA_NUM, EMA_ALPHA_DEN)

\* "EULER," + String(smoothRoll, 2) + "," + String(smoothPitch, 2) + ...
EulerLine(r, p, y) == <<"EULER", String2(r), String2(p), String2(y)>>

\* loop(): the sensor read (lines 218-277)
SensorRead ==
  /\ pc = "sensor"
  /\ IF UpdateDue
     THEN /\ lastUpdate' = millis
          /\ since' = [since EXCEPT !.update = 0]
          /\ IF ImuGate(imuConnected)
             THEN \E raw \in MagRaws, est \in FilterOutputs :
                    LET mode == FusionMode(magConnected, raw)
                        m_ut == IF magConnected THEN Calibrate(raw) ELSE Zero3
                        ok == EstimateAccepted(est)
                        r == IF ok THEN SmoothStep(emaInitialized, smoothRoll, est[1].val)
                             ELSE smoothRoll
                        p == IF ok THEN SmoothStep(emaInitialized, smoothPitch, est[2].val)
                             ELSE smoothPitch
                        y == IF ok THEN SmoothStep(emaInitialized, smoothYaw, est[3].val)
                             ELSE smoothYaw
                        o1 == IF ok THEN sendLine(Out, useWiFi, EulerLine(r, p, y))
                              ELSE Out
                        o2 == IF DiagDue
                              THEN SerialPrint(o1, <<"DIAG">>)
                              ELSE o1
                    IN /\ smoothRoll' = r
                       /\ smoothPitch' = p
                       /\ smoothYaw' = y
                       /\ emaInitialized' = (emaInitialized \/ ok)
                       /\ SetOut(o2)
                       /\ lastDiag' = IF DiagDue THEN millis ELSE lastDiag
                       /\ lastTick' =
                            [kind |-> "fused", imuRead |-> TRUE,
                             magRead |-> magConnected,
                             magZero |-> (magConnected /\ raw = Zero3),
                             mode |-> mode,
                             magArgZero |-> (mode = "update" /\ m_ut = Zero3),
                             estNaN |-> (\E i \in 1..3 : isnan(est[i])),
                             est |-> IF ok
                                     THEN <<est[1].val, est[2].val, est[3].val>>
                                     ELSE Zero3,
                             ema |-> IF ~ok THEN "none"
                                     ELSE IF emaInitialized THEN "ema" ELSE "seed",
                             sent |-> ok,
                             diag |-> DiagDue]
             ELSE /\ lastTick' = IdleTick("skipped")
                  /\ UNCHANGED <<smoothVars, outVars, lastDiag>>
     ELSE UNCHANGED <<lastUpdate, since, smoothVars, outVars, lastDiag, lastTick>>
  /\ pc' = "watchdog"
  /\ UNCHANGED <<benchVars, millis, ticks, start, wifiRet, lastStatusCheck, lastWiFiCheck,
                 imuConnected, magConnected, useWiFi, wifiEverConnected,
                 wifiEnvVars, sensorEnvVars, initVars>>

\* ------------------------------------------------------------------------
\* Specification
\* ------------------------------------------------------------------------
Next ==
  \/ setup_sensors
  \/ setupWiFi_begin
  \/ setupWiFi_wait
  \/ setupWiFi_result
  \/ setup_end
  \/ WiFiWatchdog
  \/ I2CHealth
  \/ SensorRead
  \/ Tick
  \/ LinkUp
  \/ LinkDown
  \/ ImuAckChange
  \/ MagAckChange

Spec == Init /\ [][Next]_vars

\* ------------------------------------------------------------------------
\* The smoother of one axis, run on its own with a smoothing factor alpha
\* ------------------------------------------------------------------------
InitEma ==
  /\ Boot
  /\ imuAck
  /\ magAck
  /\ emaRun \in {[NoEmaRun EXCEPT !.alpha = a] : a \in EmaAlphas}
  /\ calRun = NoCalRun

\* the first accepted estimate: smoothed = raw (lines 252-256)
EmaSeed ==
  /\ ~emaRun.seeded
  /\ \E raw \in EmaRaws :
       emaRun' = [emaRun EXCEPT !.seeded = TRUE, !.raw = raw, !.smoothed = raw]
  /\ UNCHANGED <<firmwareVars, calRun>>

\* a later accepted estimate: smoothed = emaAngle(smoothed, raw, alpha)
\* (lines 257-261)
EmaUpdate ==
  /\ emaRun.seeded
  /\ emaRun.steps < MaxEmaSteps
  /\ \E raw \in EmaRaws :
       emaRun' = [emaRun EXCEPT
                    !.steps = @ + 1,
                    !.fed = emaRun.raw,
                    !.before = emaRun.smoothed,
                    !.raw = raw,
                    !.smoothed = emaAngle(emaRun.smoothed, raw,
                                          emaRun.alpha[1], emaRun.alpha[2])]
  /\ UNCHANGED <<firmwareVars, calRun>>

NextEma ==
  \/ EmaSeed
  \/ EmaUpdate

SpecEma == InitEma /\ [][NextEma]_vars

\* ------------------------------------------------------------------------
\* The magnetometer branch of the sensor read, run on its own with the
\* offsets and scales of a calibrated build
\* ------------------------------------------------------------------------
InitCal ==
  /\ Boot
  /\ imuAck
  /\ magAck
  /\ emaRun = NoEmaRun
  /\ calRun \in {[NoCalRun EXCEPT !.offset = o, !.scale = sc] :
                    o \in CalOffsets, sc \in CalScales}

\* one reading with magConnected true: getHeading, the calibration and the
\* choice of the filter call (lines 228-243)
CalRead ==
  /\ calRun.reads < MaxCalReads
  /\ \E raw \in CalRaws :
       calRun' = [calRun EXCEPT
                    !.reads = @ + 1,
                    !.raw = raw,
                    !.m_ut = CalibrateWith(raw, calRun.offset, calRun.scale),
                    !.mode = FusionMode(TRUE, raw)]
  /\ UNCHANGED <<firmwareVars, emaRun>>

NextCal == CalRead

SpecCal == InitCal /\ [][NextCal]_vars

\* ------------------------------------------------------------------------
\* loop() after a long run, picked up shortly before the clock wraps
\* ------------------------------------------------------------------------

\* 2^32 - d for 0 < d < 2^16
ToWrap(d) == <<WORD - 1, WORD - d>>

\* loop() about to start an iteration with both sensors present and the
\* link state either Primary with the link up or Fallback with the station
\* reconnecting; the sensor read ran 3 ms ago, the health check 200 ms ago,
\* the watchdog 1990 ms ago, the diagnostic print 1000 ms ago.  The channel
\* traces start empty at this point.
InitLongRun ==
  /\ pc = "watchdog"
  /\ millis \in {ToWrap(d) : d \in BeforeWrap}
  /\ ticks = 0
  /\ start = U32(SETUP_DELAY)
  /\ wifiRet = TRUE
  /\ since = [update |-> 3, status |-> 200, wifi |-> 1990]
  /\ lastUpdate = Sub32(millis, U32(since.update))
  /\ lastStatusCheck = Sub32(millis, U32(since.status))
  /\ lastWiFiCheck = Sub32(millis, U32(since.wifi))
  /\ lastDiag = Sub32(millis, U32(1000))
  /\ imuConnected = TRUE
  /\ magConnected = TRUE
  /\ useWiFi \in BOOLEAN
  /\ wifiEverConnected = TRUE
  /\ smoothRoll = 10000
  /\ smoothPitch = -5000
  /\ smoothYaw = 359000
  /\ emaInitialized = TRUE
  /\ wlConnected = useWiFi
  /\ wifiStarted = TRUE
  /\ wifiBeginCalls = IF useWiFi THEN 1 ELSE 2
  /\ imuAck = TRUE
  /\ magAck = TRUE
  /\ imuInitOk = TRUE
  /\ magInitialized = TRUE
  /\ udpOut = <<>>
  /\ serialOut = <<>>
  /\ lineCount = 0
  /\ lastSent = [seq |-> 0, via |-> "none", line |-> <<"none">>]
  /\ lastTick = NoTick
  /\ emaRun = NoEmaRun
  /\ calRun = NoCalRun

NextLoop ==
  \/ WiFiWatchdog
  \/ I2CHealth
  \/ SensorRead
  \/ Tick
  \/ LinkUp
  \/ LinkDown
  \/ ImuAckChange
  \/ MagAckChange

SpecLongRun == InitLongRun /\ [][NextLoop]_vars

\* ------------------------------------------------------------------------
\* Vocabulary of the properties
\* ------------------------------------------------------------------------

\* this step is a WiFi watchdog that is due (a supervisory check)
WatchdogRuns == pc = "watchdog" /\ pc' = "health" /\ WiFiCheckDue

\* this step is an I2C health check that is due (a health refresh)
HealthRuns == pc = "health" /\ pc' = "sensor" /\ StatusCheckDue

\* this step is a sensor read that is due (a sampling tick)
SampleRuns == pc = "sensor" /\ pc' = "watchdog" /\ UpdateDue

\* the lines of a channel trace that went through sendLine
Telemetry(s) == SelectSeq(s, LAMBDA e : e.seq > 0)

\* the TRANSPORT lines of a channel trace
Transports(s) == SelectSeq(s, LAMBDA e : e.head[1] = "TRANSPORT")

\* the trace entry of the n-th line handed to sendLine, written while the
\* link state designated channel via
Entry(n, via, line) == [seq |-> n, via |-> via, head |-> line]

TransportsAlternate ==
  LET T == {udpOut[k] : k \in {j \in 1..Len(udpOut) :
                                   udpOut[j].head[1] = "TRANSPORT"}}
             \cup {serialOut[k] : k \in {j \in 1..Len(serialOut) :
                                            serialOut[j].head[1] = "TRANSPORT"}}
  IN \A a, b \in T :
       ( /\ a.seq < b.seq
         /\ ~\E c \in T : /\ a.seq < c.seq
                           /\ c.seq < b.seq )
       => a.head # b.head

C2_TransportNotification ==
  [][ /\ (pc \in LoopPcs /\ useWiFi' # useWiFi) =>
           /\ WatchdogRuns
           /\ lineCount' = lineCount + 1
           /\ IF useWiFi'
              THEN /\ udpOut' =
                        Append(udpOut, Entry(lineCount + 1, "wifi", <<"TRANSPORT", "wifi">>))
                   /\ serialOut' = serialOut
              ELSE /\ serialOut' =
                        Append(serialOut, Entry(lineCount + 1, "serial", <<"TRANSPORT", "serial">>))
                   /\ udpOut' = udpOut
      /\ (pc \in LoopPcs /\ useWiFi' = useWiFi) =>
           /\ udpOut' # udpOut => Transports(udpOut') = Transports(udpOut)
           /\ serialOut' # serialOut =>
                Transports(serialOut') = Transports(serialOut)
      /\ (udpOut' # udpOut \/ serialOut' # serialOut) => TransportsAlternate'
    ]_vars

\* three TRANSPORT lines have been written: startup, failover, failback
C2_Witness ==
  /\ useWiFi
  /\ Len(Transports(udpOut)) = 2
  /\ Len(Transports(serialOut)) = 1
  /\ lineCount > 3

\* ------------------------------------------------------------------------
\* C3. Link state Primary implies that a primary connection attempt has
\* succeeded at some earlier point: useWiFi implies wifiEverConnected.
\* ------------------------------------------------------------------------
C3_PrimaryOnlyAfterSuccess == useWiFi => wifiEverConnected

\* the primary never connected, time has passed in the main loop, a
\* supervisory check has run, and link state is still Fallback
C3_Witness ==
  /\ pc = "health"
  /\ ~wifiEverConnected
  /\ ~useWiFi
  /\ ticks >= 1
  /\ lastWiFiCheck = millis

\* ------------------------------------------------------------------------
\* C4. Failback: a supervisory check that finds link state Fallback, the
\* primary having succeeded before and the primary link connected, sets link
\* state to Primary and writes exactly one TRANSPORT,wifi line to the primary
\* channel without a reconnect attempt; one that finds the primary still
\* disconnected leaves link state Fallback, writes nothing and issues a
\* reconnect attempt.
\* ------------------------------------------------------------------------
C4_Failback ==
  [][ /\ (WatchdogRuns /\ ~useWiFi /\ wifiEverConnected /\ wlConnected) =>
           /\ useWiFi'
           /\ udpOut' =
                Append(udpOut, Entry(lineCount + 1, "wifi", <<"TRANSPORT", "wifi">>))
           /\ serialOut' = serialOut
           /\ lineCount' = lineCount + 1
           /\ wifiBeginCalls' = wifiBeginCalls
      /\ (WatchdogRuns /\ ~useWiFi /\ wifiEverConnected /\ ~wlConnected) =>
           /\ ~useWiFi'
           /\ UNCHANGED outVars
           /\ wifiBeginCalls' = wifiBeginCalls + 1
           /\ wifiStarted'
    ]_vars

\* a failback has just happened, after an earlier failover
C4_Witness ==
  /\ pc = "health"
  /\ useWiFi
  /\ wlConnected
  /\ Len(Transports(serialOut)) = 1
  /\ lastSent = [seq |-> lineCount, via |-> "wifi", line |-> <<"TRANSPORT", "wifi">>]

\* ------------------------------------------------------------------------
\* C5. Startup: the wait for the initial connection ends within the 5 s
\* timeout (plus one poll of 100 ms); setupWiFi returns true and records
\* wifiEverConnected exactly when the link is connected at its decision;
\* setup then sets link state to that result and writes exactly one line,
\* the TRANSPORT line naming it, to its channel, and this is the first line
\* handed to sendLine; the startup result is never decided again.
\* ------------------------------------------------------------------------
SetupPcs == {"setup", "wifi_begin", "wifi_wait", "wifi_result", "setup_end"}

C5_Startup ==
  [][ /\ (pc = "wifi_result" /\ pc' = "setup_end") =>
           /\ wifiRet' = wlConnected
           /\ wifiEverConnected' = wlConnected
           /\ ~AtLeast(Elapsed(start), 5000 + 100)
      /\ (pc = "setup_end" /\ pc' = "watchdog") =>
           /\ useWiFi' = wifiRet
           /\ wifiEverConnected = wifiRet
           /\ lineCount = 0
           /\ lineCount' = 1
           /\ IF wifiRet
              THEN /\ udpOut' = <<Entry(1, "wifi", <<"TRANSPORT", "wifi">>)>>
                   /\ serialOut' = serialOut
              ELSE /\ serialOut' =
                        Append(serialOut, Entry(1, "serial", <<"TRANSPORT", "serial">>))
                   /\ udpOut' = <<>>
      /\ (pc \in SetupPcs \ {"setup_end"}) =>
           /\ lineCount' = 0
           /\ ~useWiFi'
      /\ (pc \in LoopPcs) =>
           /\ pc' \in LoopPcs
           /\ wifiRet' = wifiRet
    ]_vars

\* startup has just ended in Fallback after the full timeout
C5_Witness ==
  /\ pc = "watchdog"
  /\ ticks = 0
  /\ lineCount = 1
  /\ ~useWiFi
  /\ ~wifiEverConnected
  /\ Elapsed(start) = U32(5000)
  /\ lastSent = [seq |-> 1, via |-> "serial", line |-> <<"TRANSPORT", "serial">>]

\* ------------------------------------------------------------------------
\* C6 as stated: a supervisory check that finds link state Fallback and the
\* primary never connected issues a connect attempt.
\* ------------------------------------------------------------------------
C6_ConnectAttemptStillIssued ==
  [][ (WatchdogRuns /\ ~useWiFi /\ ~wifiEverConnected) =>
        wifiBeginCalls' = wifiBeginCalls + 1
    ]_vars

\* ------------------------------------------------------------------------
\* C6 as amended: a supervisory check that finds link state Fallback and the
\* primary never connected issues no connect attempt, leaves link state
\* Fallback and writes nothing; in the main loop, as long as the primary has
\* never connected, the startup attempt is the only connect attempt ever
\* issued and the station stays switched off.
\* ------------------------------------------------------------------------
C6_NoConnectAttemptWhenNeverConnected ==
  [][ /\ (WatchdogRuns /\ ~useWiFi /\ ~wifiEverConnected) =>
           /\ wifiBeginCalls' = wifiBeginCalls
           /\ wifiStarted' = wifiStarted
           /\ ~useWiFi'
           /\ UNCHANGED outVars
      /\ (pc \in LoopPcs /\ ~wifiEverConnected) =>
           /\ wifiBeginCalls' = 1
           /\ ~wifiStarted'
    ]_vars

\* a supervisory check has run later than startup with the primary never
\* connected, and the startup attempt is still the only one
C6_Witness ==
  /\ pc = "health"
  /\ ~wifiEverConnected
  /\ ticks >= 1
  /\ lastWiFiCheck = millis
  /\ lastWiFiCheck # U32(0)
  /\ wifiBeginCalls = 1
  /\ ~wifiStarted

\* ------------------------------------------------------------------------
\* C7. Delivery: a step hands at most one line to sendLine; the line is
\* appended once to the end of exactly one channel, the one designated by
\* link state at the call (primary iff Primary, fallback iff Fallback), and
\* the lines already in either channel are neither moved, repeated nor
\* removed, so that each channel holds its lines in the order they were
\* generated; a step that hands no line to sendLine writes no telemetry.
\* ------------------------------------------------------------------------
C7_Delivery ==
  [][ /\ lineCount' \in {lineCount, lineCount + 1}
      /\ (lineCount' = lineCount) =>
           /\ udpOut' = udpOut
           /\ Telemetry(serialOut') = Telemetry(serialOut)
      /\ (lineCount' = lineCount + 1) =>
           /\ lastSent'.seq = lineCount'
           /\ lastSent'.via = (IF useWiFi' THEN "wifi" ELSE "serial")
           /\ LET e == Entry(lineCount', lastSent'.via,
                             IF lastSent'.line[1] = "TRANSPORT"
                             THEN lastSent'.line ELSE <<lastSent'.line[1]>>)
              IN IF useWiFi'
                 THEN /\ udpOut' = Append(udpOut, e)
                      /\ Telemetry(serialOut') = Telemetry(serialOut)
                 ELSE /\ udpOut' = udpOut
                      /\ Telemetry(serialOut') = Append(Telemetry(serialOut), e)
    ]_vars

\* lines have been written to both channels
C7_Witness ==
  /\ Len(udpOut) >= 2
  /\ Len(Telemetry(serialOut)) >= 2
  /\ lineCount = Len(udpOut) + Len(Telemetry(serialOut))

\* ------------------------------------------------------------------------
\* C8. A sampling tick on which the filter hands back a nan roll, pitch or
\* yaw does not smooth, hands no line to sendLine, leaves the smoothed
\* angles and emaInitialized unchanged and goes on to the next loop
\* iteration; a sampling tick with a numeric estimate, also after such a
\* tick, smooths it and sends the EULER line of the smoothed angles.
\* ------------------------------------------------------------------------
C8_NanTickDropped ==
  [][ /\ (SampleRuns /\ lastTick'.kind = "fused" /\ lastTick'.estNaN) =>
           /\ lastTick'.ema = "none"
           /\ ~lastTick'.sent
           /\ UNCHANGED smoothVars
           /\ UNCHANGED <<udpOut, lineCount, lastSent>>
           /\ Telemetry(serialOut') = Telemetry(serialOut)
           /\ pc' = "watchdog"
      /\ (SampleRuns /\ lastTick'.kind = "fused" /\ ~lastTick'.estNaN) =>
           /\ lastTick'.ema = (IF emaInitialized THEN "ema" ELSE "seed")
           /\ emaInitialized'
           /\ lineCount' = lineCount + 1
           /\ lastSent'.line = <<"EULER", String2(smoothRoll'), String2(smoothPitch'),
                                  String2(smoothYaw')>>
    ]_vars

\* a nan tick after a valid one: the smoothed angles of the valid tick stand
C8_Witness ==
  /\ lastTick.kind = "fused"
  /\ lastTick.estNaN
  /\ emaInitialized
  /\ smoothRoll # 0
  /\ lastSent.line[1] = "EULER"

\* ------------------------------------------------------------------------
\* C9. Fusion mode per tick: a sampling tick with imuConnected true updates
\* the filter in 9-axis mode if and only if magConnected is true and the raw
\* triple read on that tick is not (0,0,0), and in 6-axis mode otherwise;
\* the magnetometer is read only if magConnected is true; and the EULER
\* line is sent whenever the estimate is numeric, in either mode.
\* ------------------------------------------------------------------------
C9_FusionMode ==
  [][ (SampleRuns /\ imuConnected) =>
        /\ lastTick'.kind = "fused"
        /\ lastTick'.imuRead
        /\ lastTick'.magRead = magConnected
        /\ lastTick'.mode = (IF magConnected /\ ~lastTick'.magZero
                             THEN "update" ELSE "updateIMU")
        /\ ~lastTick'.estNaN =>
             /\ lastTick'.sent
             /\ lineCount' = lineCount + 1
             /\ lastSent'.line[1] = "EULER"
    ]_vars

\* an all-zero triple was read with magConnected true: 6-axis, EULER sent
C9_Witness ==
  /\ lastTick.kind = "fused"
  /\ lastTick.magRead
  /\ lastTick.magZero
  /\ lastTick.mode = "updateIMU"
  /\ lastTick.sent
  /\ magConnected

\* ------------------------------------------------------------------------
\* C10. A sampling tick with imuConnected false reads no sensor, does not
\* update the filter, sends and prints nothing, leaves the smoothed angles
\* and emaInitialized as they are and goes on to the next loop iteration;
\* the health check that is due still sends its STATUS line and the WiFi
\* watchdog that is due still runs, whatever imuConnected is.
\* ------------------------------------------------------------------------
C10_ImuDownTickSkipped ==
  [][ /\ (SampleRuns /\ ~imuConnected) =>
           /\ lastTick' = IdleTick("skipped")
           /\ UNCHANGED smoothVars
           /\ UNCHANGED outVars
           /\ UNCHANGED lastDiag
           /\ pc' = "watchdog"
      /\ HealthRuns =>
           /\ lineCount' = lineCount + 1
           /\ lastSent'.line[1] = "STATUS"
      /\ WatchdogRuns => lastWiFiCheck' = millis
    ]_vars

\* a tick skipped after the smoother was seeded: the last values stand
C10_Witness ==
  /\ lastTick.kind = "skipped"
  /\ ~imuConnected
  /\ emaInitialized
  /\ smoothYaw # 0
  /\ pc = "watchdog"

\* ------------------------------------------------------------------------
\* C11  Wraparound with alpha = 1: after an update the smoothed angle equals
\* the raw angle just fed, also when the two straddle the 0/360 boundary
\* (seeded with 359.0 and fed 1.0, the smoothed angle is 1.0).
\* ------------------------------------------------------------------------
C11_AlphaOneFollowsRaw ==
  (emaRun.alpha = <<1, 1>> /\ emaRun.steps >= 1) => emaRun.smoothed = emaRun.raw

\* no EULER line has been written to either channel so far
NoEulerYet ==
  /\ \A k \in 1..Len(udpOut) : udpOut[k].head[1] # "EULER"
  /\ \A k \in 1..Len(serialOut) : serialOut[k].head[1] # "EULER"

\* ------------------------------------------------------------------------
\* C12  Seeding: the first sampling tick with a numeric estimate sets the
\* three smoothed angles exactly to the raw estimate and its EULER line
\* carries those raw values; before it the smoothed angles are the initial
\* zeros and no EULER line has been emitted; the smoother is never
\* un-seeded, and every later numeric tick goes through emaAngle with
\* EMA_ALPHA against the previous smoothed value.
\* ------------------------------------------------------------------------
C12_Seeding ==
  [][ /\ ~emaInitialized =>
           /\ <<smoothRoll, smoothPitch, smoothYaw>> = Zero3
           /\ NoEulerYet
      /\ emaInitialized => emaInitialized'
      /\ (SampleRuns /\ lastTick'.kind = "fused" /\ ~lastTick'.estNaN) =>
           LET est == lastTick'.est
           IN /\ emaInitialized'
              /\ lineCount' = lineCount + 1
              /\ lastSent'.line = EulerLine(smoothRoll', smoothPitch', smoothYaw')
              /\ IF NoEulerYet
                 THEN /\ lastTick'.ema = "seed"
                      /\ <<smoothRoll', smoothPitch', smoothYaw'>> = est
                      /\ lastSent'.line = EulerLine(est[1], est[2], est[3])
                 ELSE /\ lastTick'.ema = "ema"
                      /\ smoothRoll' = emaAngle(smoothRoll, est[1],
                                                EMA_ALPHA_NUM, EMA_ALPHA_DEN)
                      /\ smoothPitch' = emaAngle(smoothPitch, est[2],
                                                 EMA_ALPHA_NUM, EMA_ALPHA_DEN)
                      /\ smoothYaw' = emaAngle(smoothYaw, est[3],
                                               EMA_ALPHA_NUM, EMA_ALPHA_DEN)
    ]_vars

\* a first numeric tick has just seeded the smoother and sent its EULER line
C12_Witness ==
  /\ lastTick.ema = "seed"
  /\ lastTick.est = <<smoothRoll, smoothPitch, smoothYaw>>
  /\ lastSent.line = EulerLine(lastTick.est[1], lastTick.est[2], lastTick.est[3])

\* |x|
Magnitude(x) == IF x < 0 THEN -x ELSE x

\* alpha * x for the smoothing factor of the smoother run on its own
AlphaTimes(x) == RoundDiv(emaRun.alpha[1] * x, emaRun.alpha[2])

\* ------------------------------------------------------------------------
\* C13 as stated  No-wrap step: for two consecutive raw values a, b with
\* |b - a| <= 180 the smoothed value after feeding b is
\* smoothed_{n-1} + alpha * (b - a).
\* ------------------------------------------------------------------------
C13_StepFollowsRawDelta ==
  (emaRun.steps >= 1 /\ Magnitude(emaRun.raw - emaRun.fed) <= HALF_TURN) =>
    emaRun.smoothed = emaRun.before + AlphaTimes(emaRun.raw - emaRun.fed)

\* ------------------------------------------------------------------------
\* C13 amended  No-wrap step: for a raw value b with
\* |b - smoothed_{n-1}| <= 180 the smoothed value after feeding b is
\* smoothed_{n-1} + alpha * (b - smoothed_{n-1}), for every alpha of
\* EmaAlphas; at the first update after seeding, where smoothed_{n-1} is the
\* previous raw value a, this is smoothed_{n-1} + alpha * (b - a).
\* ------------------------------------------------------------------------
C13_NoWrapStep ==
  /\ (emaRun.steps >= 1 /\ Magnitude(emaRun.raw - emaRun.before) <= HALF_TURN) =>
       emaRun.smoothed = emaRun.before + AlphaTimes(emaRun.raw - emaRun.before)
  /\ (emaRun.steps = 1 /\ Magnitude(emaRun.raw - emaRun.fed) <= HALF_TURN) =>
       /\ emaRun.before = emaRun.fed
       /\ emaRun.smoothed = emaRun.before + AlphaTimes(emaRun.raw - emaRun.fed)

\* a second update without wrap, from a smoothed value that is not the
\* previous raw value, with alpha below 1
C13_Witness ==
  /\ emaRun.steps >= 2
  /\ emaRun.alpha = <<EMA_ALPHA_NUM, EMA_ALPHA_DEN>>
  /\ emaRun.before # emaRun.fed
  /\ Magnitude(emaRun.raw - emaRun.before) <= HALF_TURN
  /\ Magnitude(emaRun.raw - emaRun.fed) <= HALF_TURN
  /\ emaRun.smoothed # emaRun.before

\* ------------------------------------------------------------------------
\* C14  Convergence: while the same raw angle r is fed on every step, the
\* smoothed value approaches r itself: its distance to r never grows, and
\* with alpha = 1 it equals r after an update.
\* ------------------------------------------------------------------------
C14_ConstantFeedConverges ==
  (emaRun.steps >= 2 /\ emaRun.raw = emaRun.fed) =>
    /\ Magnitude(emaRun.smoothed - emaRun.raw)
         <= Magnitude(emaRun.before - emaRun.raw)
    /\ emaRun.alpha = <<1, 1>> => emaRun.smoothed = emaRun.raw

\* no STATUS line has been written to either channel so far
NoStatusYet ==
  /\ \A k \in 1..Len(udpOut) : udpOut[k].head[1] # "STATUS"
  /\ \A k \in 1..Len(serialOut) : serialOut[k].head[1] # "STATUS"

StatusCount ==
  Cardinality({k \in 1..Len(udpOut) : udpOut[k].head[1] = "STATUS"})
    + Cardinality({k \in 1..Len(serialOut) : serialOut[k].head[1] = "STATUS"})

\* ------------------------------------------------------------------------
\* C16  Heartbeat: every health refresh probes both sensors afresh and
\* emits exactly one line, STATUS with the two freshly probed values as 1
\* or 0, whatever the values were before; an absent sensor is reported as
\* 0 and the loop goes on to its next section.
\* ------------------------------------------------------------------------
C16_Heartbeat ==
  [][ HealthRuns =>
        /\ imuConnected' = imuAck
        /\ magConnected' = magAck
        /\ lineCount' = lineCount + 1
        /\ Len(udpOut') + Len(serialOut') = Len(udpOut) + Len(serialOut) + 1
        /\ lastSent'.seq = lineCount'
        /\ lastSent'.line = <<"STATUS", IF imuAck THEN 1 ELSE 0,
                                        IF magAck THEN 1 ELSE 0>>
        /\ pc' = "sensor"
    ]_vars

\* a second heartbeat has been emitted with the IMU absent and the
\* magnetometer present
C16_Witness ==
  /\ StatusCount >= 2
  /\ lastSent.line = <<"STATUS", 0, 1>>
  /\ ~imuConnected
  /\ pc = "sensor"

C18_Scheduler ==
  [][ /\ (pc = "watchdog" /\ pc' = "health") =>
           IF since.wifi >= WIFI_CHECK_INTERVAL
           THEN lastWiFiCheck' = millis /\ since' = [since EXCEPT !.wifi = 0]
           ELSE UNCHANGED <<lastWiFiCheck, since, useWiFi, outVars, wifiStarted,
                            wifiBeginCalls>>
      /\ (pc = "health" /\ pc' = "sensor") =>
           IF since.status >= STATUS_INTERVAL
           THEN /\ lastStatusCheck' = millis
                /\ since' = [since EXCEPT !.status = 0]
                /\ lineCount' = lineCount + 1
           ELSE UNCHANGED <<lastStatusCheck, since, imuConnected, magConnected,
                            outVars>>
      /\ (pc = "sensor" /\ pc' = "watchdog") =>
           IF since.update >= UPDATE_INTERVAL
           THEN /\ lastUpdate' = millis
                /\ since' = [since EXCEPT !.update = 0]
                /\ lastTick'.kind \in {"fused", "skipped"}
           ELSE UNCHANGED <<lastUpdate, since, smoothVars, outVars, lastDiag,
                            lastTick>>
    ]_vars

\* the clock has wrapped since the health check last ran; the watchdog has
\* just run, the health check is due next, the sensor read is not
C18_Witness ==
  /\ pc = "health"
  /\ millis[1] = 0
  /\ lastWiFiCheck = millis
  /\ since.wifi = 0
  /\ lastStatusCheck[1] = WORD - 1
  /\ since.status >= STATUS_INTERVAL
  /\ since.update < UPDATE_INTERVAL

\* ------------------------------------------------------------------------
\* C19  Initialise before use: a sampling step reads the IMU only if
\* imu.init() succeeded at startup, and reads the magnetometer and takes
\* the 9-axis path only if mag.initialize() ran at startup.
\* ------------------------------------------------------------------------
C19_InitialiseBeforeUse ==
  /\ lastTick.imuRead => imuInitOk
  /\ lastTick.magRead => magInitialized
  /\ lastTick.mode = "update" => magInitialized

\* ------------------------------------------------------------------------
\* C20  The calibrated magnetometer vector handed to the 9-axis update is
\* never (0, 0, 0), for every raw triple and every offset and non-zero
\* scale of the calibration.
\* ------------------------------------------------------------------------
C20_MagArgNeverZero ==
  calRun.mode = "update" => calRun.m_ut # Zero3

====
